---- MODULE Spec2Model ----
(***************************************************************************)
(* A model of vixl::CodeBuffer (src/code-buffer-vixl.cc).                  *)
(*                                                                         *)
(* One CodeBuffer object is modelled together with the two build-time      *)
(* switches its code depends on: VIXL_DEBUG (VIXL_ASSERT is compiled in    *)
(* only then, VIXL_CHECK always) and the allocation backend                *)
(* (VIXL_CODE_BUFFER_MALLOC / VIXL_CODE_BUFFER_MMAP).  Pointers are        *)
(* addresses, arithmetic on them and on size_t wraps modulo SizeMod.       *)
(* mem holds the capacity_ bytes of the region; bytes outside the region   *)
(* are not modelled, a write that reaches them is undefined behaviour and  *)
(* is a nondeterministic choice between a crash and going on.              *)
(***************************************************************************)
EXTENDS Integers, Sequences, FiniteSets, TLC

\* ---- bounds of the model ------------------------------------------------
MaxCap == 4        \* largest capacity given to a constructor
MaxLen == 2        \* longest data block / zero run handed to one call
MaxOverrun == 1    \* how far past the region a release build is followed

\* ---- the machine ----------------------------------------------------------
NULL == 0
SizeMod == 2^12                 \* size_t and byte* wrap at this modulus
MAP_FAILED == SizeMod - 1       \* (void*)-1, what mmap returns on failure

Byte == {0, 1}                  \* a byte is 0x00 or it is not
Data == UNION {[1..n -> Byte] : n \in 0..MaxLen}
Capacities == 0..MaxCap
AllocAddrs == {8}               \* what a successful allocation returns
WrapAddrs == {NULL, 8, 9}      \* caller memory handed to CodeBuffer(byte*, size_t)
Backends == {"MALLOC", "MMAP"}

VARIABLES
  VIXL_DEBUG,   \* build: assertions and zero-fill-on-reset compiled in
  backend,      \* build: "MALLOC" or "MMAP"
  buffer_,      \* base address of the region
  managed_,     \* the object allocated the region itself
  cursor_,      \* address of the next byte to write
  dirty_,
  capacity_,
  mem,          \* the region's bytes, mem[i] is the byte at buffer_ + i - 1
  prot,         \* page protection of the region: a set of PROT_ flags
  freed,        \* number of times the region was handed back to the allocator
  pc,           \* "new", "live", "fault" (the call did not return), "destroyed"
  hist,         \* EmitData calls since construction / Reset
  last          \* the last call: its name, its size argument, how it ended

vars == <<VIXL_DEBUG, backend, buffer_, managed_, cursor_, dirty_, capacity_,
          mem, prot, freed, pc, hist, last>>

build == <<VIXL_DEBUG, backend>>
object == <<buffer_, managed_, cursor_, dirty_, capacity_>>

NoHist == [tracking |-> FALSE, bytes |-> <<>>]
FreshHist == [tracking |-> TRUE, bytes |-> <<>>]

\* n: the size argument (the padding, for Align)
\* after: -1, or, for Align() called right after an Align() that returned,
\* the number of padding bytes that earlier call wrote, or, for SetWritable()
\* called right after a SetExecutable() that returned, 0
Call(op, n, res) ==
  [op |-> op, n |-> n, res |-> res,
   after |-> IF op = "Align" /\ last.op = "Align" /\ last.res = "ok" THEN last.n
             ELSE IF op = "SetWritable" /\ last.op = "SetExecutable" /\ last.res = "ok"
               THEN 0
             ELSE -1]

\* ---- page protection (sys/mman.h) -----------------------------------------
PROT_NONE == {}
PROT_READ == {"r"}
PROT_WRITE == {"w"}
PROT_EXEC == {"x"}

\* ---- pointer and size_t arithmetic --------------------------------------
Wrap(x) == (x + SizeMod) % SizeMod

CursorOffset == Wrap(cursor_ - buffer_)

\* the region is memory the process may touch
Mapped == buffer_ # NULL /\ buffer_ # MAP_FAILED

\* a store into the region does not raise SIGSEGV
CanWrite == "w" \in prot

\* ---- helpers declared in code-buffer-vixl.h / utils-vixl.h --------------
GetRemainingBytes == Wrap(Wrap(buffer_ + capacity_) - cursor_)

HasSpaceFor(amount) == GetRemainingBytes >= amount

AlignUp(pointer, alignment) ==
  Wrap(((pointer + alignment - 1) \div alignment) * alignment)

IsWordAligned(pointer) == pointer % 4 = 0

IsDirty == dirty_

\* VIXL_ASSERT(cond) ends the process only in debug builds
AssertFails(cond) == VIXL_DEBUG /\ ~cond

\* VIXL_CHECK(cond) ends the process in every build
CheckFails(cond) == ~cond

Init ==
  /\ VIXL_DEBUG \in BOOLEAN
  /\ backend \in Backends
  /\ buffer_ = NULL
  /\ managed_ = FALSE
  /\ cursor_ = NULL
  /\ dirty_ = FALSE
  /\ capacity_ = 0
  /\ mem = <<>>
  /\ prot = PROT_NONE
  /\ freed = 0
  /\ pc = "new"
  /\ hist = NoHist
  /\ last = [op |-> "none", n |-> 0, res |-> "ok", after |-> -1]

\* ---- memory ---------------------------------------------------------------
\* the region after `bytes` are stored from region offset off on; bytes that
\* fall outside the region are not part of the model
Store(m, off, bytes) ==
  [i \in 1..Len(m) |->
     IF i - 1 >= off /\ i - 1 < off + Len(bytes) THEN bytes[i - off] ELSE m[i]]

Zeros(n) == [i \in 1..n |-> 0]

\* what memcpy(dst, bytes, n) / memset(dst, 0, n) can do: the set of
\* [res, mem] outcomes.  Nothing is touched for n = 0; a store into memory
\* that is not mapped read+write raises SIGSEGV; a store that runs past the
\* end of the region is undefined: it crashes (before or after the bytes
\* inside the region were stored) or goes on; a store that runs to the end
\* of the address space does not go on, the page at address NULL is not
\* mapped.
MemStore(dst, bytes) ==
  LET off == Wrap(dst - buffer_)
      n == Len(bytes)
      stored == Store(mem, off, bytes)
  IN  IF n = 0 THEN {[res |-> "ok", mem |-> mem]}
      ELSE IF ~Mapped THEN {[res |-> "segv", mem |-> mem]}
      ELSE IF off + n <= capacity_
        THEN IF CanWrite THEN {[res |-> "ok", mem |-> stored]}
                            ELSE {[res |-> "segv", mem |-> mem]}
      ELSE IF off < capacity_ /\ ~CanWrite THEN {[res |-> "segv", mem |-> mem]}
      ELSE IF dst + n >= SizeMod
        THEN {[res |-> "segv", mem |-> stored],
              [res |-> "segv", mem |-> mem]}
      ELSE {[res |-> "ok", mem |-> stored],
            [res |-> "segv", mem |-> stored],
            [res |-> "segv", mem |-> mem]}

\* what the allocator of the build can return for a request of n > 0 bytes
AllocResults == AllocAddrs \cup (IF backend = "MALLOC" THEN {NULL} ELSE {MAP_FAILED})

\* n bytes of memory nobody has written yet: whatever was there before, taken
\* here to be a non-zero byte repeated
Garbage(n) == {[i \in 1..n |-> 1]}

\* contents of freshly allocated memory: malloc leaves it uninitialised, an
\* anonymous mapping is zero-filled
FreshContents(n) == IF backend = "MALLOC" THEN Garbage(n) ELSE {Zeros(n)}

\* protection of a fresh region: malloc memory is read+write, and so is the
\* mapping mmap is asked for (PROT_READ | PROT_WRITE)
AllocProt == PROT_READ \cup PROT_WRITE

Live == pc = "live"

\* ---- CodeBuffer::CodeBuffer(size_t capacity) ----------------------------
\* slip: cursor_ keeps the NULL of the initialiser list
AllocCursor_Unset(addr) == NULL

\* cursor_ = buffer_, with buffer_ the address the allocator returned
AllocCursor(addr) == addr

CodeBufferAlloc(capacity, addr, content) ==
  /\ pc = "new"
  /\ managed_' = TRUE
  /\ dirty_' = FALSE
  /\ capacity_' = capacity
  /\ freed' = freed
  /\ UNCHANGED build
  /\ IF capacity = 0
       THEN /\ buffer_' = NULL
            /\ cursor_' = NULL
            /\ mem' = <<>>
            /\ prot' = PROT_NONE
            /\ pc' = "live"
            /\ hist' = FreshHist
            /\ last' = Call("CodeBuffer(size_t)", capacity, "ok")
       ELSE /\ buffer_' = addr
            /\ mem' = IF addr \in AllocAddrs THEN content ELSE <<>>
            /\ prot' = IF addr \in AllocAddrs THEN AllocProt ELSE PROT_NONE
            /\ IF CheckFails(addr # NULL)
                 THEN /\ cursor_' = NULL
                      /\ pc' = "fault"
                      /\ hist' = NoHist
                      /\ last' = Call("CodeBuffer(size_t)", capacity, "check")
               ELSE IF AssertFails(IsWordAligned(addr))
                 THEN /\ cursor_' = NULL
                      /\ pc' = "fault"
                      /\ hist' = NoHist
                      /\ last' = Call("CodeBuffer(size_t)", capacity, "assert")
               ELSE   /\ cursor_' = AllocCursor(addr)
                      /\ pc' = "live"
                      /\ hist' = FreshHist
                      /\ last' = Call("CodeBuffer(size_t)", capacity, "ok")

\* ---- CodeBuffer::CodeBuffer(byte* buffer, size_t capacity) --------------
CodeBufferWrap(buffer, capacity, content) ==
  /\ pc = "new"
  /\ buffer_' = buffer
  /\ managed_' = FALSE
  /\ cursor_' = buffer
  /\ dirty_' = FALSE
  /\ capacity_' = capacity
  /\ mem' = IF buffer # NULL THEN content ELSE <<>>
  /\ prot' = IF buffer # NULL THEN PROT_READ \cup PROT_WRITE ELSE PROT_NONE
  /\ freed' = freed
  /\ UNCHANGED build
  /\ IF AssertFails(buffer # NULL)
       THEN /\ pc' = "fault"
            /\ hist' = NoHist
            /\ last' = Call("CodeBuffer(byte*,size_t)", capacity, "assert")
       ELSE /\ pc' = "live"
            /\ hist' = FreshHist
            /\ last' = Call("CodeBuffer(byte*,size_t)", capacity, "ok")

\* ---- CodeBuffer::~CodeBuffer() ------------------------------------------
\* slip: the destructor does not look at the dirty flag
DestructorPrecondition_Unchecked == TRUE

DestructorPrecondition == ~IsDirty

\* slip: the region is handed to free / munmap whoever owns it
DestructorReleases_Always == TRUE

\* if (managed_): free(buffer_) / munmap(buffer_, capacity_) is called; it
\* releases a region when buffer_ is one (free(NULL) does nothing, munmap of
\* an address that is no mapping fails)
DestructorReleases == managed_

Destroy ==
  /\ Live
  /\ UNCHANGED <<build, object, mem>>
  /\ hist' = NoHist
  /\ IF AssertFails(DestructorPrecondition)
       THEN /\ pc' = "fault"
            /\ UNCHANGED <<prot, freed>>
            /\ last' = Call("~CodeBuffer", 0, "assert")
       ELSE /\ pc' = "destroyed"
            /\ freed' = IF DestructorReleases /\ Mapped THEN freed + 1 ELSE freed
            /\ prot' = IF DestructorReleases /\ Mapped THEN PROT_NONE ELSE prot
            /\ last' = Call("~CodeBuffer", 0, "ok")

\* ---- CodeBuffer::SetExecutable() / SetWritable() --------------------------
\* what mprotect(buffer_, capacity_, ...) can return: it fails on memory that
\* is not mapped, and the system may refuse it on memory that is (an address
\* that is not page aligned, a policy against executable pages)
MprotectResults ==
  IF Mapped THEN {0, -1}
  ELSE IF buffer_ = NULL /\ capacity_ = 0 THEN {0}
  ELSE {-1}

\* slip: execute permission is added, write permission is not taken away
SetExecutableProt_KeepsWrite == PROT_READ \cup PROT_WRITE \cup PROT_EXEC

SetExecutableProt == PROT_READ \cup PROT_EXEC

\* slip: execute permission is taken away, write permission is not given back
SetWritableProt_ReadOnly == PROT_READ

SetWritableProt == PROT_READ \cup PROT_WRITE

\* #ifdef VIXL_CODE_BUFFER_MMAP ... #else VIXL_UNIMPLEMENTED()
ProtectSupported == backend = "MMAP"

Protect(op, newprot) ==
  /\ Live
  /\ UNCHANGED <<build, object, mem, freed>>
  /\ hist' = NoHist
  /\ IF ProtectSupported
       THEN \E ret \in MprotectResults :
              IF CheckFails(ret = 0)
                THEN /\ pc' = "fault"
                     /\ prot' = prot
                     /\ last' = Call(op, 0, "check")
                ELSE /\ pc' = "live"
                     /\ prot' = IF Mapped THEN newprot ELSE prot
                     /\ last' = Call(op, 0, "ok")
       ELSE /\ pc' = "fault"          \* VIXL_UNIMPLEMENTED()
            /\ prot' = prot
            /\ last' = Call(op, 0, "unimplemented")

SetExecutable == Protect("SetExecutable", SetExecutableProt)

SetWritable == Protect("SetWritable", SetWritableProt)

\* ---- CodeBuffer::EmitString(const char* string) -------------------------
EmitString(len) ==
  /\ Live
  /\ UNCHANGED <<build, object, mem, prot, freed>>
  /\ hist' = NoHist
  /\ pc' = "fault"
  /\ last' = Call("EmitString", len,
                  IF AssertFails(HasSpaceFor(len + 1)) THEN "assert" ELSE "unimplemented")

\* ---- CodeBuffer::EmitData(const void* data, size_t size) ----------------
\* slips of the capacity check: one byte too generous; against the whole
\* capacity instead of what is left of it
EmitDataHasSpace_OffByOne(size) == GetRemainingBytes + 1 >= size

EmitDataHasSpace_WholeCapacity(size) == capacity_ >= size

EmitDataHasSpace(size) == HasSpaceFor(size)

\* slip: the cursor is not advanced past the bytes just copied
EmitDataCursor_NotAdvanced(size) == cursor_

EmitDataCursor(size) == Wrap(cursor_ + size)

\* slip: the flag is set only when bytes are copied
EmitDataDirty_IfBytes(size) == dirty_ \/ size > 0

\* dirty_ = true, whatever the size
EmitDataDirty(size) == TRUE

EmitDataHist(data) ==
  IF hist.tracking /\ Len(hist.bytes) + Len(data) <= capacity_
    THEN [tracking |-> TRUE, bytes |-> hist.bytes \o data]
    ELSE NoHist

EmitData(data) ==
  LET size == Len(data) IN
  /\ Live
  /\ CursorOffset + size <= capacity_ + MaxOverrun
  /\ UNCHANGED <<build, buffer_, managed_, capacity_, prot, freed>>
  /\ hist' = EmitDataHist(data)
  /\ IF AssertFails(EmitDataHasSpace(size))
       THEN /\ pc' = "fault"
            /\ UNCHANGED <<dirty_, mem, cursor_>>
            /\ last' = Call("EmitData", size, "assert")
       ELSE /\ dirty_' = EmitDataDirty(size)
            /\ \E r \in MemStore(cursor_, data) :
                 /\ mem' = r.mem
                 /\ last' = Call("EmitData", size, r.res)
                 /\ IF r.res = "ok"
                      THEN pc' = "live" /\ cursor_' = EmitDataCursor(size)
                      ELSE pc' = "fault" /\ cursor_' = cursor_

\* ---- CodeBuffer::UpdateData(size_t offset, const void* data, size_t size)
\* slip: the patch is placed relative to the cursor
UpdateDataDst_FromCursor(offset) == Wrap(cursor_ + offset)

UpdateDataDst(offset) == Wrap(buffer_ + offset)

UpdateDataInRange(dst, size) == Wrap(dst + size) <= cursor_

UpdateData(offset, data) ==
  LET size == Len(data)
      dst == UpdateDataDst(offset)
  IN
  /\ Live
  /\ offset + size <= capacity_ + MaxOverrun
  /\ dirty_' = TRUE
  /\ IF AssertFails(UpdateDataInRange(dst, size))
       THEN /\ pc' = "fault"
            /\ mem' = mem
            /\ last' = Call("UpdateData", size, "assert")
       ELSE \E r \in MemStore(dst, data) :
                 /\ mem' = r.mem
                 /\ pc' = IF r.res = "ok" THEN "live" ELSE "fault"
                 /\ last' = Call("UpdateData", size, r.res)
  /\ hist' = NoHist
  /\ UNCHANGED <<build, buffer_, managed_, capacity_, cursor_, prot, freed>>

\* ---- CodeBuffer::EmitZeroedBytes(int n) / CodeBuffer::Align() -----------
\* EnsureSpaceFor(n) calls Grow() when there is no room, and Grow() throws
EnsureSpaceForFails(n) == ~HasSpaceFor(n)

\* slip: the cursor is moved back over the bytes it should move past
ZeroedCursor_Backwards(n) == Wrap(cursor_ - n)

ZeroedCursor(n) == Wrap(cursor_ + n)

\* the int n as EnsureSpaceFor(size_t) and memset(void*, int, size_t) take it
ZeroedSize(n) == Wrap(n)

\* slip: dirty_ is set before EnsureSpaceFor is called
ZeroFill_DirtyFirst(op, n) ==
  /\ UNCHANGED <<build, buffer_, managed_, capacity_, prot, freed>>
  /\ hist' = NoHist
  /\ dirty_' = TRUE
  /\ IF EnsureSpaceForFails(ZeroedSize(n))
       THEN /\ pc' = "fault"
            /\ UNCHANGED <<mem, cursor_>>
            /\ last' = Call(op, n, "throw")
       ELSE \E r \in MemStore(cursor_, Zeros(ZeroedSize(n))) :
                 /\ mem' = r.mem
                 /\ last' = Call(op, n, r.res)
                 /\ IF r.res = "ok"
                      THEN pc' = "live" /\ cursor_' = ZeroedCursor(n)
                      ELSE pc' = "fault" /\ cursor_' = cursor_

\* the body of EmitZeroedBytes(n), run for the call `op`
ZeroFill(op, n) ==
  /\ UNCHANGED <<build, buffer_, managed_, capacity_, prot, freed>>
  /\ hist' = NoHist
  /\ IF EnsureSpaceForFails(ZeroedSize(n))
       THEN /\ pc' = "fault"
            /\ UNCHANGED <<dirty_, mem, cursor_>>
            /\ last' = Call(op, n, "throw")
       ELSE /\ dirty_' = TRUE
            /\ \E r \in MemStore(cursor_, Zeros(ZeroedSize(n))) :
                 /\ mem' = r.mem
                 /\ last' = Call(op, n, r.res)
                 /\ IF r.res = "ok"
                      THEN pc' = "live" /\ cursor_' = ZeroedCursor(n)
                      ELSE pc' = "fault" /\ cursor_' = cursor_

EmitZeroedBytes(n) ==
  /\ Live
  /\ CursorOffset + n <= capacity_ + MaxOverrun
  /\ ZeroFill("EmitZeroedBytes", n)

\* slip: the offset into the region is aligned, not the address
AlignEnd_OfOffset == Wrap(buffer_ + AlignUp(CursorOffset, 4))

AlignEnd == AlignUp(cursor_, 4)

\* slip: a whole word of padding when the cursor is aligned already
AlignPadding_WholeWord == 4 - (cursor_ % 4)

AlignPadding == Wrap(AlignEnd - cursor_)

Align ==
  /\ Live
  /\ CursorOffset + AlignPadding <= capacity_ + MaxOverrun + 3
  /\ IF AssertFails(AlignPadding <= 4)
       THEN /\ pc' = "fault"
            /\ UNCHANGED <<build, object, mem, prot, freed>>
            /\ hist' = NoHist
            /\ last' = Call("Align", AlignPadding, "assert")
       ELSE ZeroFill("Align", AlignPadding)

\* ---- CodeBuffer::Reset() / SetClean() -----------------------------------
\* slip: memory the object does not own is zero-filled too
ResetZeroFills_Wrapped == VIXL_DEBUG

ResetZeroFills == VIXL_DEBUG /\ managed_

\* slip: the cursor is left where it is
ResetCursor_Kept == cursor_

ResetCursor == buffer_

SetCleanDirty == FALSE

Reset ==
  /\ Live
  /\ UNCHANGED <<build, buffer_, managed_, capacity_, prot, freed>>
  /\ \E r \in (IF ResetZeroFills THEN MemStore(buffer_, Zeros(capacity_))
                                 ELSE {[res |-> "ok", mem |-> mem]}) :
       /\ mem' = r.mem
       /\ last' = Call("Reset", 0, r.res)
       /\ IF r.res = "ok"
            THEN /\ pc' = "live"
                 /\ cursor_' = ResetCursor
                 /\ dirty_' = SetCleanDirty
                 /\ hist' = FreshHist
            ELSE /\ pc' = "fault"
                 /\ UNCHANGED <<cursor_, dirty_>>
                 /\ hist' = NoHist

SetClean ==
  /\ Live
  /\ UNCHANGED <<build, buffer_, managed_, capacity_, cursor_, mem, prot, freed>>
  /\ dirty_' = SetCleanDirty
  /\ hist' = NoHist
  /\ pc' = "live"
  /\ last' = Call("SetClean", 0, "ok")

\* ---- CodeBuffer::Grow(size_t new_capacity) ------------------------------
\* Grow throws std::runtime_error and touches nothing.  A call left by an
\* exception is followed no further: the object is as it was before the call,
\* and what a caller that catches the exception can do next is what it could
\* do before the call.
\* slip: the region is reallocated to new_capacity bytes and Grow returns
Grow_Reallocates(new_capacity) ==
  /\ Live
  /\ UNCHANGED <<build, buffer_, managed_, cursor_, dirty_, prot, freed>>
  /\ capacity_' = new_capacity
  /\ mem' = [i \in 1..new_capacity |-> IF i <= Len(mem) THEN mem[i] ELSE 1]
  /\ hist' = NoHist
  /\ pc' = "live"
  /\ last' = Call("Grow", new_capacity, "ok")

Grow(new_capacity) ==
  /\ Live
  /\ UNCHANGED <<build, object, mem, prot, freed>>
  /\ hist' = NoHist
  /\ pc' = "fault"
  /\ last' = Call("Grow", new_capacity, "throw")

\* ---- the program ----------------------------------------------------------
Construct ==
  \/ \E capacity \in Capacities : \E addr \in AllocResults :
       \E content \in FreshContents(capacity) :
         CodeBufferAlloc(capacity, addr, content)
  \/ \E buffer \in WrapAddrs : \E capacity \in Capacities :
       \E content \in Garbage(capacity) :
         CodeBufferWrap(buffer, capacity, content)

Next ==
  \/ Construct
  \/ Destroy
  \/ SetExecutable
  \/ SetWritable
  \/ \E len \in 0..MaxLen : EmitString(len)
  \/ \E data \in Data : EmitData(data)
  \/ \E offset \in 0..MaxCap : \E data \in Data : UpdateData(offset, data)
  \/ \E n \in {-1} \cup 0..MaxLen : EmitZeroedBytes(n)
  \/ Align
  \/ Reset
  \/ SetClean
  \/ \E nc \in {0, MaxCap} : Grow(nc)

Spec == Init /\ [][Next]_vars

\* ===========================================================================
\* Properties
\* ===========================================================================
Constructors == {"CodeBuffer(size_t)", "CodeBuffer(byte*,size_t)"}

\* a constructor has returned: the object exists (or existed)
Constructed == pc \in {"live", "destroyed"} \/ (pc = "fault" /\ last.op \notin Constructors)

Faulted(op) == pc = "fault" /\ last.op = op

Returned(op) == pc # "fault" /\ last.op = op /\ last.res = "ok"

\* ---- C1 -------------------------------------------------------------------
\* C1 as claimed: in every state of a constructed buffer, in every build,
\* 0 <= cursor_ - buffer_ <= capacity_ (an address below buffer_ shows as an
\* offset above capacity_, offsets being taken modulo SizeMod).
C1_Claimed == Constructed => CursorOffset <= capacity_

\* C1 (amended): in builds with assertions (VIXL_DEBUG) the cursor offset
\* stays within 0..capacity_ in every state of a constructed buffer, the
\* state a call faulted in included: a call that would pass capacity_ ends
\* the process and leaves the cursor where it was.
C1_CursorWithinCapacity == (VIXL_DEBUG /\ Constructed) => CursorOffset <= capacity_

\* an EmitData that would have passed capacity_ has faulted, cursor in range
C1_Witness ==
  /\ VIXL_DEBUG
  /\ Faulted("EmitData")
  /\ last.res = "assert"
  /\ capacity_ > 0
  /\ CursorOffset <= capacity_
  /\ CursorOffset + last.n > capacity_

\* ---- C2 -------------------------------------------------------------------
\* C2 as claimed: the destructor run on a dirty buffer fails the assertion,
\* in every build; Reset() and SetClean() leave dirty_ false and the
\* destructor of a clean buffer completes.
C2_Claimed ==
  /\ (last.op = "~CodeBuffer" /\ dirty_) => pc = "fault"
  /\ (last.op \in {"Reset", "SetClean"} /\ pc = "live") => ~dirty_
  /\ (last.op = "~CodeBuffer" /\ ~dirty_) => pc = "destroyed"

\* C2 (amended): in builds with assertions the destructor run on a dirty
\* buffer fails the assertion and releases nothing; in every build a Reset()
\* or SetClean() that returns leaves dirty_ false, and the destructor of a
\* clean buffer completes without a fault.
C2_NeverDestroyedDirty ==
  /\ (VIXL_DEBUG /\ last.op = "~CodeBuffer" /\ dirty_) =>
        (pc = "fault" /\ last.res = "assert" /\ freed = 0)
  /\ (last.op \in {"Reset", "SetClean"} /\ pc = "live") => ~dirty_
  /\ (last.op = "~CodeBuffer" /\ ~dirty_) => (pc = "destroyed" /\ last.res = "ok")

\* the destructor ran on a dirty buffer holding emitted bytes, and faulted
C2_Witness ==
  /\ VIXL_DEBUG
  /\ Faulted("~CodeBuffer")
  /\ dirty_
  /\ managed_
  /\ CursorOffset > 0

\* ---- C3 -------------------------------------------------------------------
\* C3: in builds with assertions, SetExecutable() never returns on a buffer
\* whose dirty_ flag is true.
C3_Claimed == ~(VIXL_DEBUG /\ Returned("SetExecutable") /\ dirty_)

\* ---- C4 -------------------------------------------------------------------
\* hist.tracking: nothing but EmitData has been called since the constructor
\* or Reset() returned, and the sizes add up to capacity_ at most; hist.bytes
\* is the concatenation of the data of these calls.
RoundTrip ==
  /\ pc # "fault"
  /\ CursorOffset = Len(hist.bytes)
  /\ \A i \in 1..Len(hist.bytes) : mem[i] = hist.bytes[i]

\* C4 as claimed, for every buffer that has a region: after EmitData calls
\* on a fresh or freshly reset buffer with cumulative size <= capacity_, no
\* call has faulted, the cursor offset is the sum of the sizes and
\* [base, cursor) holds the data in call order.
C4_Claimed == (hist.tracking /\ Mapped) => RoundTrip

\* C4 (amended): the same, for a buffer whose region is mapped read+write
\* (the allocation behind it succeeded and SetExecutable() has not left it
\* read+execute); no region is needed as long as no byte has been emitted.
C4_EmitDataRoundTrip ==
  (hist.tracking /\ ((Mapped /\ CanWrite) \/ hist.bytes = <<>>)) => RoundTrip

\* two or more EmitData calls have filled a region of 3 bytes or more with
\* bytes that are not all the same
C4_Witness ==
  /\ hist.tracking
  /\ Returned("EmitData")
  /\ capacity_ >= 3
  /\ Len(hist.bytes) = capacity_
  /\ last.n \in 1..(capacity_ - 1)
  /\ \E i, j \in 1..Len(hist.bytes) : hist.bytes[i] # hist.bytes[j]

\* ---- C5 -------------------------------------------------------------------
\* the region is one this object mapped with mmap
PageMapped == backend = "MMAP" /\ managed_ /\ Mapped /\ Constructed

\* C5: a page-mapped region is never writable and executable at once; it is
\* read+write when the constructor returns and when SetWritable() returns,
\* read+execute when SetExecutable() returns, and no other call changes its
\* protection while the object lives.
C5_WriteXorExecute ==
  PageMapped =>
    /\ ~({"w", "x"} \subseteq prot)
    /\ Returned("CodeBuffer(size_t)") => prot = {"r", "w"}
    /\ Returned("SetWritable") => prot = {"r", "w"}
    /\ Returned("SetExecutable") => prot = {"r", "x"}
    /\ pc # "destroyed" => prot \in {{"r", "w"}, {"r", "x"}}

\* a region holding emitted bytes has been made executable
C5_Witness ==
  /\ PageMapped
  /\ Returned("SetExecutable")
  /\ CursorOffset > 0
  /\ dirty_
  /\ prot = {"r", "x"}

\* ---- C6 -------------------------------------------------------------------
\* the step is a call of EmitData with more bytes than capacity_ - cursor
\* offset leaves room for
EmitDataOverCapacity ==
  /\ Live
  /\ last'.op = "EmitData"
  /\ CursorOffset + last'.n > capacity_

NothingChanged == mem' = mem /\ cursor_' = cursor_ /\ dirty_' = dirty_

\* C6 as claimed: in every build, EmitData with size above the remaining
\* capacity ends in a fault, with no byte copied, the cursor not moved and
\* dirty_ not changed.
C6_Claimed == [][EmitDataOverCapacity => (pc' = "fault" /\ NothingChanged)]_vars

\* C6 (amended): in builds with assertions, EmitData with size above the
\* remaining capacity fails the assertion, with no byte copied, the cursor
\* not moved and dirty_ not changed.
C6_EmitDataOverCapacityFaults ==
  [][(VIXL_DEBUG /\ EmitDataOverCapacity) =>
        (pc' = "fault" /\ last'.res = "assert" /\ NothingChanged)]_vars

\* EmitData of one byte more than is left has faulted on a clean buffer that
\* was written and reset before
C6_Witness ==
  /\ VIXL_DEBUG
  /\ Faulted("EmitData")
  /\ ~dirty_
  /\ CursorOffset = 0
  /\ last.n = capacity_ + 1
  /\ Mapped /\ CanWrite

\* ---- C7 -------------------------------------------------------------------
\* the region with `data` in place of the bytes at offsets
\* offset .. offset + Len(data) - 1, every other byte as it is
Patched(offset, data) ==
  [i \in 1..Len(mem) |->
     IF offset < i /\ i <= offset + Len(data) THEN data[i - offset] ELSE mem[i]]

\* C7: UpdateData(offset, data, size) with offset + size <= cursor offset
\* that returns has put data at offsets [offset, offset + size), changed no
\* other byte, left cursor_ and capacity_ alone and set dirty_; and it does
\* return when the patched bytes lie in a region mapped read+write.
C7_UpdateDataPatchesExactly ==
  [][last'.op = "UpdateData" =>
       \A offset \in 0..(CursorOffset - last'.n) : \A data \in [1..last'.n -> Byte] :
         (offset <= MaxCap /\ UpdateData(offset, data)) =>
          /\ pc' = "live" =>
               /\ mem' = Patched(offset, data)
               /\ cursor_' = cursor_
               /\ capacity_' = capacity_
               /\ dirty_'
          /\ (Mapped /\ CanWrite /\ CursorOffset <= capacity_) => pc' = "live"]_vars

\* a patch of one byte or more has returned, with emitted bytes before and
\* after the patched ones
C7_Witness ==
  /\ Returned("UpdateData")
  /\ last.n >= 1
  /\ CursorOffset >= last.n + 2
  /\ CursorOffset <= capacity_
  /\ \E i, j \in 1..CursorOffset : mem[i] # mem[j]

\* ---- C8 -------------------------------------------------------------------
\* C8, in the builds where UpdateData has a fatal path (VIXL_DEBUG):
\* UpdateData(offset, data, size) with offset + size above the cursor offset
\* faults with the region, the cursor and dirty_ as they were before the call.
C8_Claimed ==
  [][(VIXL_DEBUG /\ last'.op = "UpdateData") =>
       \A offset \in 0..MaxCap : \A data \in [1..last'.n -> Byte] :
         (offset + Len(data) > CursorOffset /\ UpdateData(offset, data)) =>
            (pc' = "fault" /\ NothingChanged)]_vars

\* ---- C9 -------------------------------------------------------------------
AlignReturns == Live /\ last'.op = "Align" /\ pc' = "live"

\* the bytes at offsets from .. to - 1 are zero, every other byte is as before
ZeroPadded(from, to) ==
  mem' = [i \in 1..Len(mem) |-> IF from < i /\ i <= to THEN 0 ELSE mem[i]]

\* C9 as claimed: Align() that returns has advanced the cursor offset to the
\* smallest multiple of 4 >= the old offset, measured from the region's base,
\* by 0 to 3 bytes, has zeroed the padding and changed no other byte.
C9_Claimed ==
  [][AlignReturns =>
       /\ CursorOffset' % 4 = 0
       /\ CursorOffset' - CursorOffset \in 0..3
       /\ ZeroPadded(CursorOffset, CursorOffset')]_vars

\* C9 (amended): Align() that returns has advanced the cursor to the smallest
\* address that is a multiple of 4 and >= the old cursor address, by 0 to 3
\* bytes, has zeroed the padding and changed no other byte; the cursor offset
\* from the base is then a multiple of 4 when the base is word aligned.
\* Align() does return when the padding fits a region mapped read+write.
C9_AlignAdvancesToWordAddress ==
  [][(Live /\ last'.op = "Align") =>
       /\ pc' = "live" =>
            /\ cursor_' % 4 = 0
            /\ cursor_' - cursor_ \in 0..3
            /\ last'.n = cursor_' - cursor_
            /\ IsWordAligned(buffer_) => CursorOffset' % 4 = 0
            /\ ZeroPadded(CursorOffset, CursorOffset')
       /\ (Mapped /\ CanWrite /\ CursorOffset + AlignPadding <= capacity_) =>
            pc' = "live"]_vars

\* Align() has padded a region wrapped at an address that is no multiple of 4
C9_Witness ==
  /\ Returned("Align")
  /\ ~managed_
  /\ ~IsWordAligned(buffer_)
  /\ last.n >= 1
  /\ CursorOffset <= capacity_
  /\ mem[CursorOffset] = 0

\* ---- C10 ------------------------------------------------------------------
\* C10: Align() called right after an Align() that returned writes nothing:
\* it returns with the cursor, every byte of the region and dirty_ unchanged.
C10_AlignTwiceIsNoOp ==
  [][(Returned("Align") /\ last'.op = "Align") =>
       /\ pc' = "live"
       /\ last'.n = 0
       /\ cursor_' = cursor_
       /\ mem' = mem
       /\ dirty_' = dirty_]_vars

\* Align() has returned right after an Align() that wrote padding
C10_Witness ==
  /\ Returned("Align")
  /\ last.after >= 1
  /\ dirty_
  /\ CursorOffset >= 1

\* ---- C11 ------------------------------------------------------------------
ResetCalled == Live /\ last'.op = "Reset"

\* cursor_ is back at the base, dirty_ is false
Rewound == cursor_' = buffer_' /\ ~dirty_'

\* C11 as claimed: from every state, whatever the protection of the region,
\* Reset() ends with the cursor at the base and dirty_ false, and leaves
\* capacity_, buffer_ and managed_ unchanged.
C11_Claimed ==
  [][ResetCalled =>
       (pc' = "live" /\ Rewound /\ UNCHANGED <<capacity_, buffer_, managed_>>)]_vars

\* C11 (amended): a Reset() that returns ends with the cursor at the base and
\* dirty_ false; Reset() leaves capacity_, buffer_ and managed_ unchanged;
\* and it returns from every state but one where the build zero-fills
\* (VIXL_DEBUG, owned region of one byte or more) a region that is not
\* writable, where the zero-fill faults with cursor_ and dirty_ as they were.
C11_ResetRewinds ==
  [][ResetCalled =>
       /\ UNCHANGED <<capacity_, buffer_, managed_>>
       /\ pc' = "live" => Rewound
       /\ pc' # "live" => UNCHANGED <<cursor_, dirty_, mem>>
       /\ pc' = "live" <=>
            (~(VIXL_DEBUG /\ managed_) \/ capacity_ = 0 \/ (Mapped /\ CanWrite))]_vars

\* Reset() has returned on a wrapped region that was written to and then made
\* read+execute
C11_Witness ==
  /\ Returned("Reset")
  /\ cursor_ = buffer_
  /\ ~dirty_
  /\ ~managed_
  /\ capacity_ >= 2
  /\ "x" \in prot
  /\ \E i \in 1..capacity_ : mem[i] = 0

C13_ExecutableThenWritable ==
  [][(backend = "MMAP" /\ Live /\ last'.op \in {"SetExecutable", "SetWritable"}) =>
       /\ UNCHANGED <<mem, cursor_, dirty_, capacity_, buffer_>>
       /\ (Returned("SetExecutable") /\ last'.op = "SetWritable" /\ pc' = "live" /\ Mapped) =>
            (prot = {"r", "x"} /\ prot' = {"r", "w"})]_vars

\* SetWritable() has returned right after SetExecutable() on a region holding
\* emitted bytes that are not all the same
C13_Witness ==
  /\ backend = "MMAP"
  /\ Returned("SetWritable")
  /\ last.after = 0
  /\ Mapped
  /\ prot = {"r", "w"}
  /\ dirty_
  /\ CursorOffset >= 2
  /\ CursorOffset <= capacity_
  /\ \E i, j \in 1..CursorOffset : mem[i] # mem[j]

\* ---- C14 ------------------------------------------------------------------
ReadWrite == PROT_READ \cup PROT_WRITE

\* C14: CodeBuffer(0) returns with buffer_ and cursor_ NULL, nothing
\* allocated and dirty_ false.  CodeBuffer(capacity) with capacity > 0, when
\* it returns, has cursor_ = buffer_ = the address the allocator gave, the
\* region owned and dirty_ false, and it does return with a fresh region of
\* capacity bytes, read+write and never released, when the allocator gave
\* memory.  CodeBuffer(buffer, capacity) with buffer not NULL returns with
\* cursor_ = buffer_ = buffer, dirty_ false and the region not owned.
C14_ConstructionIsClean ==
  [][/\ last'.op = "CodeBuffer(size_t)" =>
          \A capacity \in Capacities : \A addr \in AllocResults :
            \A content \in FreshContents(capacity) :
              CodeBufferAlloc(capacity, addr, content) =>
                /\ capacity = 0 =>
                     /\ pc' = "live"
                     /\ buffer_' = NULL /\ cursor_' = NULL
                     /\ mem' = <<>> /\ prot' = PROT_NONE
                /\ (capacity > 0 /\ pc' = "live") =>
                     /\ buffer_' = addr /\ cursor_' = buffer_'
                     /\ buffer_' # NULL
                /\ (capacity > 0 /\ addr \in AllocAddrs) =>
                     /\ pc' = "live"
                     /\ Len(mem') = capacity /\ prot' = ReadWrite
                /\ pc' = "live" =>
                     (managed_' /\ ~dirty_' /\ capacity_' = capacity /\ freed' = 0)
     /\ last'.op = "CodeBuffer(byte*,size_t)" =>
          \A buffer \in WrapAddrs \ {NULL} : \A capacity \in Capacities :
            \A content \in Garbage(capacity) :
              CodeBufferWrap(buffer, capacity, content) =>
                /\ pc' = "live"
                /\ buffer_' = buffer /\ cursor_' = buffer
                /\ ~managed_' /\ ~dirty_' /\ capacity_' = capacity
                /\ mem' = content /\ freed' = 0]_vars

\* CodeBuffer(capacity) has returned with a fresh owned region
C14_Witness ==
  /\ Returned("CodeBuffer(size_t)")
  /\ last.n = capacity_
  /\ capacity_ >= 2
  /\ Mapped
  /\ managed_
  /\ cursor_ = buffer_
  /\ ~dirty_
  /\ freed = 0

\* ---- C15 ------------------------------------------------------------------
\* C15: in every build and on both backends, CodeBuffer(capacity) with
\* capacity > 0 does not return when the allocator gave no memory: no live
\* owned buffer of one byte or more is without a mapped region.
C15_Claimed == (pc = "live" /\ managed_ /\ capacity_ > 0) => Mapped

\* ---- C16 ------------------------------------------------------------------
\* C16: across every step of a constructed buffer that is not Reset() the
\* cursor offset does not decrease: EmitData, EmitZeroedBytes and Align move
\* the cursor forward by the number of bytes they wrote when they return,
\* and every other call, UpdateData, SetExecutable and SetWritable among
\* them, and every call that faults, leaves cursor_ exactly as it was.
C16_CursorIsMonotonic ==
  [][(pc # "new" /\ last'.op # "Reset") =>
       /\ buffer_' = buffer_
       /\ CursorOffset' >= CursorOffset
       /\ IF last'.op \in {"EmitData", "EmitZeroedBytes", "Align"} /\ pc' = "live"
            THEN cursor_' = cursor_ + last'.n
            ELSE cursor_' = cursor_]_vars

\* EmitZeroedBytes has moved a cursor that was past the base further on
C16_Witness ==
  /\ Returned("EmitZeroedBytes")
  /\ last.n >= 1
  /\ CursorOffset > last.n
  /\ CursorOffset <= capacity_

\* ---- C17 ------------------------------------------------------------------
\* the step is a call of EmitZeroedBytes(n), from the caller or from Align(),
\* on a cursor within the region, for more bytes than capacity_ - cursor
\* offset leaves room for (n taken as the size_t it is converted to)
ZeroFillOverCapacity ==
  /\ Live
  /\ last'.op \in {"EmitZeroedBytes", "Align"}
  /\ CursorOffset <= capacity_
  /\ ZeroedSize(last'.n) > capacity_ - CursorOffset

C18_ResetZeroFillsOwnedInDebug ==
  [][ResetCalled =>
       /\ (VIXL_DEBUG /\ managed_ /\ pc' = "live") =>
            (Len(mem') = capacity_ /\ \A i \in 1..capacity_ : mem'[i] = 0)
       /\ (~VIXL_DEBUG \/ ~managed_) => (pc' = "live" /\ mem' = mem)]_vars

\* Reset() has returned in a debug build on an owned malloc region, which
\* malloc handed out non-zero and which is all zero now
C18_Witness ==
  /\ VIXL_DEBUG
  /\ backend = "MALLOC"
  /\ Returned("Reset")
  /\ managed_
  /\ capacity_ >= 2
  /\ Len(mem) = capacity_
  /\ \A i \in 1..capacity_ : mem[i] = 0

\* ---- C19 ------------------------------------------------------------------
\* C19: the destructor, when it completes, releases the region once if the
\* object allocated it (CodeBuffer(capacity), and the allocator gave memory)
\* and not at all otherwise; a region given to CodeBuffer(buffer, capacity)
\* is never released, and the destructor changes neither its bytes nor its
\* protection, whatever was called before; no region is released other than
\* by the destructor.
C19_ReleasesOwnedOnly ==
  [][/\ (Live /\ last'.op = "~CodeBuffer") =>
          /\ freed = 0
          /\ mem' = mem
          /\ (pc' = "destroyed" /\ managed_ /\ Mapped) => (freed' = 1 /\ prot' = PROT_NONE)
          /\ (pc' = "destroyed" /\ managed_ /\ ~Mapped) => freed' = 0
          /\ ~managed_ => (freed' = 0 /\ prot' = prot)
          /\ pc' = "fault" => (freed' = 0 /\ prot' = prot)
          /\ ~dirty_ => pc' = "destroyed"
     /\ last'.op # "~CodeBuffer" => freed' = freed]_vars

\* the destructor has completed on a wrapped region that holds written
\* bytes, and has released nothing
C19_Witness ==
  /\ pc = "destroyed"
  /\ last.op = "~CodeBuffer"
  /\ ~managed_
  /\ Mapped
  /\ ~dirty_
  /\ freed = 0
  /\ capacity_ >= 2
  /\ prot # PROT_NONE
  /\ \E i \in 1..capacity_ : mem[i] = 0

\* ---- C20 ------------------------------------------------------------------
WriteCalls == {"EmitData", "EmitZeroedBytes", "Align", "UpdateData"}

CleanCalls == Constructors \cup {"Reset", "SetClean"}

\* C20 as claimed: every step that enters EmitData, EmitZeroedBytes, Align
\* or UpdateData leaves dirty_ true, a zero-byte one included; a constructor,
\* Reset() or SetClean() that returns leaves it false; no other step changes
\* it; and the destructor called on a dirty buffer does not complete.
C20_Claimed ==
  [][/\ last'.op \in WriteCalls => dirty_'
     /\ (last'.op \in CleanCalls /\ pc' = "live") => ~dirty_'
     /\ last'.op \notin (WriteCalls \cup CleanCalls) => dirty_' = dirty_
     /\ (last'.op = "~CodeBuffer" /\ dirty_) => pc' = "fault"]_vars

\* C20 (amended): dirty_ tracks the write calls that got past their space
\* check, not the bytes.  A call of EmitData, EmitZeroedBytes or Align leaves
\* dirty_ true unless it failed its space check (the assertion, the
\* exception), and then leaves it as it was; a call of UpdateData leaves it
\* true even when it fails its range check; a call that writes zero bytes
\* (EmitData of size 0, EmitZeroedBytes(0), Align() on an aligned cursor)
\* returns, in every state, and leaves dirty_ true.  A constructor, Reset()
\* or SetClean() that returns leaves dirty_ false and no other step changes
\* it.  In builds with assertions the destructor called on a dirty buffer
\* fails its assertion.
C20_DirtyTracksCalls ==
  [][/\ last'.op \in WriteCalls =>
          /\ IF last'.res \in {"assert", "throw"} /\ last'.op # "UpdateData"
               THEN dirty_' = dirty_
               ELSE dirty_'
          /\ (last'.n = 0 /\ last'.op # "UpdateData") => (pc' = "live" /\ dirty_')
     /\ (last'.op \in CleanCalls /\ pc' = "live") => ~dirty_'
     /\ (last'.op \in CleanCalls /\ pc' # "live" /\ pc # "new") => dirty_' = dirty_
     /\ last'.op \notin (WriteCalls \cup CleanCalls) => dirty_' = dirty_
     /\ (VIXL_DEBUG /\ last'.op = "~CodeBuffer" /\ dirty_) => pc' = "fault"]_vars

\* in a build with assertions the destructor has failed on a buffer of
\* capacity 0, to which no byte can have been written
C20_Witness ==
  /\ VIXL_DEBUG
  /\ Faulted("~CodeBuffer")
  /\ dirty_
  /\ capacity_ = 0
  /\ buffer_ = NULL
  /\ cursor_ = NULL

====
